---------------------------- MODULE Spec2Model ----------------------------
(***************************************************************************)
(* Model of the SharePoint Online backup pipeline: main() and manage_spo() *)
(* of src/src/main.py driving SpoController of src/src/spo_controller.py.  *)
(*                                                                         *)
(* The program is one sequential process.  Each action is the code that    *)
(* runs from one interaction with the outside world (MSAL, an HTTP         *)
(* request, the file system, the clock) up to the next one; the outcome of *)
(* the interaction (status code, body, a raised exception) is chosen with  *)
(* \E from the outcomes the library can produce.  requests raises          *)
(* requests.exceptions.Timeout when a call exceeds DEFAULT_TIMEOUT, and    *)
(* nothing in the program catches it: the process ends with a traceback,   *)
(* modelled as pc = "crashed".                                             *)
(*                                                                         *)
(* Variables that are not program state (msal_log, lookup, called, failed, *)
(* puts, deletes, listing, removed) record what the program did and was    *)
(* answered, for the properties.                                           *)
(***************************************************************************)
EXTENDS Integers, Sequences, FiniteSets

(***************************************************************************)
(* Program constants.                                                      *)
(***************************************************************************)
CHUNK_SIZE == 10485760
MAX_BACKUPS == 4

(***************************************************************************)
(* Bounds of the model.                                                    *)
(***************************************************************************)
\* file sizes run up to MaxChunks full chunks (plus a partial one)
MaxChunks == 2
\* the folder listing holds at most MaxItems items
MaxItems == 6
\* creation timestamps are 1..MaxStamp (abstract seconds, all in the past)
MaxStamp == 2

(***************************************************************************)
(* Input domains.                                                          *)
(***************************************************************************)
\* the four required settings read from the environment; "" is unset/empty
Fields == {"authority", "scope", "client_id", "secret"}
Missing(c) == {f \in Fields : c[f] = ""}
\* every setting present, the secret alone missing, or nothing set at all
Configs ==
  { c \in [Fields -> {"", "x"}] : Missing(c) \in {{}, {"secret"}, Fields} }

\* HTTP status codes the remote side may answer with
Statuses == {200, 201, 202, 204, 500}

\* the status recorded for a request that raised instead of answering (or
\* was not issued yet)
NoAnswer == 0

\* st_size of the archive: around every multiple of CHUNK_SIZE, and the
\* 25,000,000-byte scenario of the specification
FileSizes ==
  { k * CHUNK_SIZE + d : k \in 0..MaxChunks, d \in {0, 1, CHUNK_SIZE - 1} }
    \cup {25000000}

\* createdDateTime texts: the instant t written to the second
\* ("2024-05-01T10:00:00Z"), or a text of another shape (missing, or with
\* fractional seconds: "2024-05-01T10:00:00.5Z")
CreatedTexts ==
  { [shape |-> "seconds", t |-> t] : t \in 1..MaxStamp }
    \cup { [shape |-> "other", t |-> 0] }

\* a folder listing: items in the order received, ids unique (the position
\* in the received listing is the id)
Listings ==
  UNION { [1..n -> CreatedTexts] : n \in 0..MaxItems }

VARIABLES
  pc,             \* where the process is
  cfg,            \* self.authority, self.scope, self.client_id, self.secret
  graph_token,    \* self.graph_token: "empty", "token" or "error"
  msal_log,       \* the token requests made to MSAL, with their results
  dir_id,         \* manage_spo: dir_id ("" or "id")
  lookup,         \* the answer to the directory lookup of get_dir_id
  upload_url,     \* upload_file: upload_url ("" or "url")
  upload_status,  \* manage_spo: upload_status
  file_size,      \* _manage_file_chunks: file_size
  chunks,         \* _manage_file_chunks: chunks
  chunk_num,      \* _manage_file_chunks: chunk_num
  start,          \* _manage_file_chunks: start
  file_open,      \* whether file_data is open
  dir_content,    \* cleanup_files: dir_content
  oldest_id,      \* cleanup_files: oldest_id (0 is the empty string)
  right_now,      \* cleanup_files: right_now ("feb29" or "other")
  called,         \* kinds of remote calls issued so far
  failed,         \* stages that have failed so far
  puts,           \* the PUT requests of the transfer, in order
  deletes,        \* the DELETE requests of the retention run, in order
  listing,        \* the folder listing as received
  removed         \* whether remove_file has run

vars == << pc, cfg, graph_token, msal_log, dir_id, lookup, upload_url, upload_status, file_size,
           chunks, chunk_num, start, file_open, dir_content, oldest_id,
           right_now, called, failed, puts, deletes, listing, removed >>

authVars == << graph_token, msal_log >>
uploadVars == << upload_url, upload_status, file_size, chunks, chunk_num,
                 start, file_open, puts >>
cleanupVars == << dir_content, oldest_id, right_now, deletes, listing >>

(***************************************************************************)
(* main() up to the call of manage_spo, and SpoController.__init__.        *)
(***************************************************************************)
Init ==
  /\ pc = "validate"
  /\ cfg \in Configs
  /\ graph_token = "empty"
  /\ msal_log = << >>
  /\ dir_id = ""
  /\ lookup = [status |-> NoAnswer, hasId |-> FALSE]
  /\ upload_url = ""
  /\ upload_status = FALSE
  /\ file_size = 0
  /\ chunks = 0
  /\ chunk_num = 0
  /\ start = 0
  /\ file_open = FALSE
  /\ dir_content = << >>
  /\ oldest_id = 0
  /\ right_now = "other"
  /\ called = {}
  /\ failed = {}
  /\ puts = << >>
  /\ deletes = << >>
  /\ listing = << >>
  /\ removed = FALSE

(***************************************************************************)
(* validate_info: iterates over dir(self), the NAMES of the attributes,    *)
(* and fails when a name is empty.                                         *)
(***************************************************************************)
DirSelf ==
  { "authority", "endpoint", "scope", "client_id", "secret", "graph_token",
    "client", "validate_info", "initialize_client", "connect_graph",
    "check_token", "query_graph", "check_dir", "create_dir", "get_dir_id",
    "_get_upload_url", "_manage_file_chunks", "upload_file", "_delete_file",
    "cleanup_files", "__class__", "__init__", "__dict__", "__doc__" }

validate_info == \A prop \in DirSelf : ~(prop = "")

ValidateInfo ==
  /\ pc = "validate"
  /\ pc' = IF validate_info THEN "connect" ELSE "returned"
  /\ UNCHANGED << cfg, dir_id, lookup, called, failed, removed >>
  /\ UNCHANGED authVars
  /\ UNCHANGED uploadVars
  /\ UNCHANGED cleanupVars


(***************************************************************************)
(* connect_graph (with initialize_client).  MSAL is outside the program:   *)
(* the constructor returns an application (a truthy object, so the return  *)
(* of line 85 is never taken); acquire_token_silent returns None ("none")  *)
(* or a cached result; acquire_token_for_client returns a dict with an     *)
(* access_token ("token"), a dict with an "error" field ("error"), or      *)
(* something that is no dict ("none").                                     *)
(***************************************************************************)
SilentResults == {"none", "token"}
ExchangeResults == {"token", "error", "none"}

\* mutant: the cached result is never taken
Truthy_Never(result) == FALSE

\* line 92: a result is truthy unless it is None
Truthy(result) == result # "none"

\* lines 100-107: the token kept after the full exchange
AfterExchange(old, result) ==
  IF result = "error" THEN old
  ELSE IF result = "token" THEN result ELSE old

MsalCall(name, result) == [call |-> name, result |-> result]

ConnectGraph ==
  /\ pc = "connect"
  /\ \/ \E silent \in SilentResults :
          /\ Truthy(silent)
          /\ graph_token' = silent
          /\ msal_log' = << MsalCall("acquire_token_silent", silent) >>
          /\ called' = called \cup {"msal_init", "acquire_token_silent"}
          /\ pc' = "check_token"
     \/ \E silent \in SilentResults, result \in ExchangeResults :
          /\ ~Truthy(silent)
          /\ graph_token' = AfterExchange(graph_token, result)
          /\ msal_log' = << MsalCall("acquire_token_silent", silent),
                            MsalCall("acquire_token_for_client", result) >>
          /\ called' = called \cup {"msal_init", "acquire_token_silent",
                                    "acquire_token_for_client"}
          /\ pc' = "check_token"
  /\ UNCHANGED << cfg, dir_id, lookup, failed, removed >>
  /\ UNCHANGED uploadVars
  /\ UNCHANGED cleanupVars

(***************************************************************************)
(* check_token, and manage_spo lines 43-45.                                *)
(***************************************************************************)
check_token == graph_token = "token"

CheckToken ==
  /\ pc = "check_token"
  /\ IF check_token
       THEN pc' = "get_dir" /\ UNCHANGED failed
       ELSE pc' = "returned" /\ failed' = failed \cup {"auth"}
  /\ UNCHANGED << cfg, dir_id, lookup, called, removed >>
  /\ UNCHANGED authVars
  /\ UNCHANGED uploadVars
  /\ UNCHANGED cleanupVars

(***************************************************************************)
(* query_graph: anything but 200 gives the error dict, which carries no    *)
(* "id" and no "value".                                                    *)
(***************************************************************************)
QueryOk(status) == status = 200

\* mutant: the id of the body is returned whatever the status
get_dir_id_AnyStatus(status, hasId) == IF hasId THEN "id" ELSE ""

\* get_dir_id: full_response.get("id", "")
get_dir_id(status, hasId) ==
  IF QueryOk(status) /\ hasId THEN "id" ELSE ""

\* manage_spo lines 50-53
GetDirId ==
  /\ pc = "get_dir"
  /\ called' = called \cup {"get_dir"}
  /\ \/ \* requests.get raises (timeout)
        /\ pc' = "crashed"
        /\ UNCHANGED << dir_id, lookup, failed >>
     \/ \E status \in Statuses, hasId \in BOOLEAN :
          /\ lookup' = [status |-> status, hasId |-> hasId]
          /\ dir_id' = get_dir_id(status, hasId)
          /\ IF dir_id' = ""
               THEN pc' = "returned" /\ failed' = failed \cup {"resolve"}
               ELSE pc' = "get_url" /\ UNCHANGED failed
  /\ UNCHANGED << cfg, removed >>
  /\ UNCHANGED authVars
  /\ UNCHANGED uploadVars
  /\ UNCHANGED cleanupVars

(***************************************************************************)
(* _get_upload_url and upload_file lines 337-340.  The status is only      *)
(* logged; the value returned is the body's uploadUrl, when it has one.    *)
(***************************************************************************)
SessionAccepted(status) == status \in {200, 201}

get_upload_url(status, hasUrl) == IF hasUrl THEN "url" ELSE ""

GetUploadUrl ==
  /\ pc = "get_url"
  /\ called' = called \cup {"create_session"}
  /\ \/ \* requests.post raises (timeout), or resp.json() does (no JSON body)
        /\ pc' = "crashed"
        /\ UNCHANGED << upload_url, failed >>
     \/ \E status \in Statuses, hasUrl \in BOOLEAN :
          /\ upload_url' = get_upload_url(status, hasUrl)
          /\ failed' = IF SessionAccepted(status) THEN failed
                       ELSE failed \cup {"session"}
          /\ pc' = IF upload_url' = "" THEN "upload_returned" ELSE "open_file"
  /\ UNCHANGED << cfg, dir_id, lookup, removed, upload_status, file_size, chunks,
                  chunk_num, start, file_open, puts >>
  /\ UNCHANGED authVars
  /\ UNCHANGED cleanupVars

(***************************************************************************)
(* _manage_file_chunks.                                                    *)
(***************************************************************************)
\* mutant: every 2xx status taken as acceptance
Accepted_Any2xx(status) == status \in {200, 201, 202, 204}

\* line 283, 312
Accepted(status) == status \in {200, 201, 202}

\* mutant: the chunk count as a true ceiling division
NumChunks_Ceiling(size) == (size + CHUNK_SIZE - 1) \div CHUNK_SIZE

\* line 286: int(file_size / CHUNK_SIZE) + 1 (the float quotient is exact
\* for every size below 2^53)
NumChunks(size) == (size \div CHUNK_SIZE) + 1

\* mutant: a read reported as a full chunk whatever is left of the file
BytesRead_Full(size, pos) == CHUNK_SIZE

\* line 291-292: len(file_data.read(CHUNK_SIZE)) with the file at offset pos
BytesRead(size, pos) ==
  IF size - pos >= CHUNK_SIZE THEN CHUNK_SIZE
  ELSE IF size - pos > 0 THEN size - pos ELSE 0

\* mutant: the end of the range taken exclusive
RangeEnd_Exclusive(first, n) == first + n

\* line 294: the inclusive end of the range
RangeEnd(first, n) == first + n - 1

\* line 318
NextStart(first, n) == first + n

\* lines 293-310: the request sent for n bytes read at offset first, with
\* the status it was answered with
PutRequest(first, n, size, status) ==
  [first |-> first, last |-> RangeEnd(first, n), length |-> n,
   total |-> size, status |-> status]

\* mutant: the file is left as it was when the block is left
WithExit_Leak(open) == open

\* line 288: leaving the with block, by return, by the end of the block or
\* by an exception, closes file_data
WithExit(open) == FALSE

\* lines 283-289: stat, chunk count, open
OpenFile ==
  /\ pc = "open_file"
  /\ \E size \in FileSizes :
       /\ file_size' = size
       /\ chunks' = NumChunks(size)
  /\ file_open' = TRUE
  /\ start' = 0
  /\ chunk_num' = 0
  /\ pc' = "chunks"
  /\ UNCHANGED << cfg, dir_id, lookup, called, failed, removed, upload_url,
                  upload_status, puts >>
  /\ UNCHANGED authVars
  /\ UNCHANGED cleanupVars

\* lines 290-320: one pass of the for loop; the pass after which the range
\* is exhausted also returns True
PutChunk ==
  /\ pc = "chunks"
  /\ chunk_num < chunks
  /\ LET n == BytesRead(file_size, start) IN
       /\ called' = called \cup {"put"}
       /\ \/ \* requests.put raises (timeout); the with block closes the file
             /\ puts' = Append(puts, PutRequest(start, n, file_size, NoAnswer))
             /\ pc' = "crashed"
             /\ file_open' = WithExit(file_open)
             /\ UNCHANGED << start, chunk_num, upload_status, failed >>
          \/ \E status \in Statuses :
               /\ puts' = Append(puts, PutRequest(start, n, file_size, status))
               /\ IF ~Accepted(status)
                 THEN /\ upload_status' = FALSE
                      /\ failed' = failed \cup {"chunk"}
                      /\ file_open' = WithExit(file_open)
                      /\ pc' = "upload_returned"
                      /\ UNCHANGED << start, chunk_num >>
                 ELSE /\ start' = NextStart(start, n)
                      /\ chunk_num' = chunk_num + 1
                      /\ UNCHANGED failed
                      /\ IF chunk_num' < chunks
                           THEN /\ pc' = "chunks"
                                /\ UNCHANGED << upload_status, file_open >>
                           ELSE /\ pc' = "upload_returned"
                                /\ upload_status' = TRUE
                                /\ file_open' = WithExit(file_open)
  /\ UNCHANGED << cfg, dir_id, lookup, removed, upload_url, file_size, chunks >>
  /\ UNCHANGED authVars
  /\ UNCHANGED cleanupVars

\* manage_spo lines 56-62: the frame of upload_file is gone
AfterUpload ==
  /\ pc = "upload_returned"
  /\ pc' = IF upload_status THEN "list" ELSE "returned"
  /\ file_size' = 0
  /\ chunks' = 0
  /\ chunk_num' = 0
  /\ start' = 0
  /\ upload_url' = ""
  /\ puts' = << >>
  /\ UNCHANGED << cfg, dir_id, lookup, called, failed, removed, upload_status,
                  file_open >>
  /\ UNCHANGED authVars
  /\ UNCHANGED cleanupVars

(***************************************************************************)
(* cleanup_files.                                                          *)
(***************************************************************************)
\* the retention run is cut off after this many DELETE requests
MaxAttempts == MaxItems - MAX_BACKUPS + 2

\* lines 392-394: strptime with "%Y-%m-%dT%H:%M:%SZ" accepts a text written
\* to the second and gives its instant, and raises ValueError otherwise
Parses(text) == text.shape = "seconds"
Instant(text) == text.t

\* lines 387-389: midnight of today's date next year, later than every
\* creation time the server has stamped
Sentinel == MaxStamp + 1

DeleteOk(status) == status = 204

\* mutant: an equal timestamp replaces the oldest so far
Older_OrEqual(t, best) == t <= best

\* line 395
Older(t, best) == t < best

\* lines 390-403: the scan, from item i on, with the oldest so far
RECURSIVE ScanOldest(_, _, _)
ScanOldest(dir, i, best) ==
  IF i > Len(dir) THEN best
  ELSE ScanOldest(dir, i + 1,
         IF Parses(dir[i].created) /\ Older(Instant(dir[i].created), best.ts)
           THEN [ts |-> Instant(dir[i].created), id |-> dir[i].id]
           ELSE best)

\* lines 413-417: remove the first item with the id, when there is one
RemoveMatch(dir, id) ==
  IF \E i \in 1..Len(dir) : dir[i].id = id
    THEN LET k == CHOOSE i \in 1..Len(dir) :
                    /\ dir[i].id = id
                    /\ \A j \in 1..(i - 1) : dir[j].id # id
         IN [i \in 1..(Len(dir) - 1) |-> IF i < k THEN dir[i] ELSE dir[i + 1]]
    ELSE dir

\* mutant: the loop goes on after a failed deletion
AfterDelete_Continue(ok) == "loop"

\* lines 410-411: a failed deletion breaks out of the loop, and
\* cleanup_files returns
AfterDelete(ok) == IF ok THEN "loop" ELSE "returned"

\* mutant: only the items whose timestamp parses are counted
OverLimit_Parseable(dir) ==
  Cardinality({i \in 1..Len(dir) : Parses(dir[i].created)}) > MAX_BACKUPS

\* the loop condition, line 386
OverLimit(dir) == Len(dir) > MAX_BACKUPS

\* lines 377-384: list the folder, read the clock
ListFolder ==
  /\ pc = "list"
  /\ called' = called \cup {"list"}
  /\ \/ \* requests.get raises (timeout)
        /\ pc' = "crashed"
        /\ UNCHANGED << dir_content, listing, right_now >>
     \/ \E status \in Statuses, value \in Listings,
           today \in {"feb29", "other"} :
          /\ dir_content' = IF QueryOk(status)
                              THEN [i \in 1..Len(value) |->
                                      [id |-> i, created |-> value[i]]]
                              ELSE << >>
          /\ listing' = dir_content'
          /\ right_now' = today
          /\ pc' = "loop"
  /\ UNCHANGED << cfg, dir_id, lookup, failed, removed, oldest_id, deletes >>
  /\ UNCHANGED authVars
  /\ UNCHANGED uploadVars

\* lines 386-417: one pass of the while loop
CleanupPass ==
  /\ pc = "loop"
  /\ OverLimit(dir_content)
  /\ Len(deletes) < MaxAttempts
  /\ \/ \* line 387: datetime(year + 1, 2, 29) raises ValueError
        /\ right_now = "feb29"
        /\ pc' = "crashed"
        /\ UNCHANGED << dir_content, oldest_id, deletes, called >>
     \/ /\ right_now # "feb29"
        /\ LET best == ScanOldest(dir_content, 1,
                                  [ts |-> Sentinel, id |-> oldest_id]) IN
             /\ oldest_id' = best.id
             /\ called' = called \cup {"delete"}
             /\ \/ \* requests.delete raises (timeout)
                   /\ deletes' = Append(deletes,
                                         [id |-> best.id, result |-> "raised"])
                   /\ pc' = "crashed"
                   /\ UNCHANGED dir_content
                \/ \E status \in Statuses :
                     /\ deletes' = Append(deletes,
                                           [id |-> best.id,
                                            result |-> IF DeleteOk(status)
                                                         THEN "ok" ELSE "failed"])
                     /\ pc' = AfterDelete(DeleteOk(status))
                     /\ dir_content' = IF DeleteOk(status)
                                         THEN RemoveMatch(dir_content, best.id)
                                         ELSE dir_content
  /\ UNCHANGED << cfg, dir_id, lookup, failed, removed, listing, right_now >>
  /\ UNCHANGED authVars
  /\ UNCHANGED uploadVars

\* the loop condition fails: cleanup_files and manage_spo return
CleanupDone ==
  /\ pc = "loop"
  /\ ~OverLimit(dir_content)
  /\ pc' = "returned"
  /\ UNCHANGED << cfg, dir_id, lookup, called, failed, removed >>
  /\ UNCHANGED authVars
  /\ UNCHANGED uploadVars
  /\ UNCHANGED cleanupVars

(***************************************************************************)
(* main line 126: remove_file, after manage_spo has returned.              *)
(***************************************************************************)
RemoveFile ==
  /\ pc = "returned"
  /\ removed' = TRUE
  /\ pc' = "done"
  /\ UNCHANGED << cfg, dir_id, lookup, called, failed >>
  /\ UNCHANGED authVars
  /\ UNCHANGED uploadVars
  /\ UNCHANGED cleanupVars

Next ==
  \/ ValidateInfo
  \/ ConnectGraph
  \/ CheckToken
  \/ GetDirId
  \/ GetUploadUrl
  \/ OpenFile
  \/ PutChunk
  \/ AfterUpload
  \/ ListFolder
  \/ CleanupPass
  \/ CleanupDone
  \/ RemoveFile

Spec == Init /\ [][Next]_vars

TypeOK ==
  /\ pc \in {"validate", "connect", "check_token", "get_dir", "get_url",
             "open_file", "chunks", "upload_returned", "list", "loop",
             "returned", "done", "crashed"}
  /\ cfg \in Configs
  /\ graph_token \in {"empty", "token", "error"}
  /\ dir_id \in {"", "id"}
  /\ upload_url \in {"", "url"}
  /\ upload_status \in BOOLEAN
  /\ file_size \in FileSizes \cup {0}
  /\ chunk_num \in 0..chunks
  /\ start \in 0..file_size
  /\ file_open \in BOOLEAN
  /\ Len(dir_content) <= MaxItems
  /\ oldest_id \in 0..MaxItems
  /\ removed \in BOOLEAN

(***************************************************************************)
(* Properties.                                                             *)
(***************************************************************************)
\* _manage_file_chunks has returned (its result not yet consumed)
TransferReturned == pc = "upload_returned" /\ "put" \in called
TransferSucceeded == TransferReturned /\ upload_status

\* C1: when every chunk PUT was accepted, the transfer has issued exactly
\* floor(L/C)+1 PUTs, the last one carrying 0 bytes when L is a multiple of
\* C; a 25,000,000-byte file goes out as the three ranges of the scenario.
C1_ChunkCount ==
  TransferSucceeded =>
    /\ Len(puts) = (file_size \div CHUNK_SIZE) + 1
    /\ (file_size % CHUNK_SIZE = 0 => puts[Len(puts)].length = 0)
    /\ (file_size = 25000000 =>
          << <<puts[1].first, puts[1].last>>,
             <<puts[2].first, puts[2].last>>,
             <<puts[3].first, puts[3].last>> >>
            = << <<0, 10485759>>, <<10485760, 20971519>>,
                 <<20971520, 24999999>> >>)

\* a file of exactly one chunk went out as two PUTs, the second one empty
C1_Witness ==
  /\ TransferSucceeded
  /\ file_size = CHUNK_SIZE
  /\ Len(puts) = 2
  /\ puts[2].length = 0

\* C2: the ranges sent are contiguous and strictly increasing: the first
\* starts at 0, each next one starts right after the end of the one before
\* and at a higher offset, and after a successful transfer the last range
\* ends at L - 1.
C2_Contiguous ==
  /\ (Len(puts) >= 1 => puts[1].first = 0)
  /\ \A i \in 1..(Len(puts) - 1) :
       /\ puts[i].last + 1 = puts[i + 1].first
       /\ puts[i].first < puts[i + 1].first
  /\ (TransferSucceeded => puts[Len(puts)].last + 1 = file_size)

\* a successful transfer of three ranges, the last one partial
C2_Witness ==
  /\ TransferSucceeded
  /\ Len(puts) = 3
  /\ puts[3].length > 0
  /\ puts[3].length < CHUNK_SIZE

\* C3: a PUT answered with a status outside {200, 201, 202} is the last PUT
\* of the run and the transfer reports False; the transfer reports True only
\* if every PUT it issued was accepted; and once a chunk was rejected no
\* further PUT follows.
C3_AbortOnReject ==
  /\ \A i \in 1..Len(puts) :
       (puts[i].status # NoAnswer /\ puts[i].status \notin {200, 201, 202}) =>
         /\ i = Len(puts)
         /\ pc = "upload_returned"
         /\ ~upload_status
  /\ (TransferSucceeded =>
        \A i \in 1..Len(puts) : puts[i].status \in {200, 201, 202})
  /\ ("chunk" \in failed =>
        /\ pc \in {"upload_returned", "returned", "done"}
        /\ ~upload_status)

\* the second chunk of a transfer was rejected
C3_Witness ==
  /\ TransferReturned
  /\ ~upload_status
  /\ Len(puts) = 2
  /\ puts[1].status = 200
  /\ puts[2].status = 500

EarlierCalls(stage) ==
  CASE stage = "auth" -> {"msal_init", "acquire_token_silent",
                          "acquire_token_for_client"}
    [] stage = "resolve" -> {"get_dir"}
    [] stage = "session" -> {"create_session"}
    [] stage = "chunk" -> {"put"}

Stages == << "auth", "resolve", "session", "chunk" >>

\* the remote calls of the stages after stage number n, retention included
LaterCalls(n) ==
  UNION { EarlierCalls(Stages[m]) : m \in (n + 1)..Len(Stages) }
    \cup {"list", "delete"}

\* C4: every stage is a hard gate: once authentication, directory
\* resolution, session creation or a chunk transfer has failed, no remote
\* call of a later stage has been issued; and the retention calls are
\* issued only after upload_file returned True.
C4_HardGate ==
  /\ \A n \in 1..Len(Stages) :
       Stages[n] \in failed => called \cap LaterCalls(n) = {}
  /\ (called \cap {"list", "delete"} # {} => upload_status)

\* C5: with a required setting missing or empty, the run makes no MSAL call
\* and no HTTP request: manage_spo returns before connect_graph.
C5_NoCallWhenConfigMissing ==
  Missing(cfg) # {} =>
    /\ called = {}
    /\ pc \in {"validate", "returned", "done"}

\* C6: when session creation is answered with a status outside {200, 201},
\* the upload URL is empty, upload_file reports False and no PUT is issued.
C6_SessionGate ==
  "session" \in failed =>
    /\ upload_url = ""
    /\ ~upload_status
    /\ "put" \notin called

\* the retention run is over: cleanup_files was entered and the process has
\* left it, by returning or with an exception
RetentionOver == "list" \in called /\ pc \in {"returned", "done", "crashed"}

AllParse(dir) == \A i \in 1..Len(dir) : Parses(dir[i].created)

Excess(n) == IF n > MAX_BACKUPS THEN n - MAX_BACKUPS ELSE 0

\* the list as it was when the k-th DELETE was issued: the listing without
\* the items the earlier, successful DELETEs removed
Remaining(k) ==
  SelectSeq(listing,
            LAMBDA item : \A j \in 1..(k - 1) :
                            ~(deletes[j].result = "ok" /\ deletes[j].id = item.id))

\* id names an item of dir whose timestamp parses and is the oldest in dir
IsOldest(id, dir) ==
  \E i \in 1..Len(dir) :
    /\ dir[i].id = id
    /\ Parses(dir[i].created)
    /\ \A j \in 1..Len(dir) :
         Parses(dir[j].created) => Instant(dir[i].created) <= Instant(dir[j].created)

\* C7: over a listing of N items whose timestamps all parse, with every
\* DELETE answered 204, a finished retention run has attempted exactly
\* N - MAX_BACKUPS deletions (none when N <= MAX_BACKUPS) and leaves
\* MAX_BACKUPS items in its list.
C7_ExactDeletions ==
  (/\ RetentionOver
   /\ AllParse(listing)
   /\ \A k \in 1..Len(deletes) : deletes[k].result = "ok") =>
    /\ Len(deletes) = Excess(Len(listing))
    /\ (Len(listing) > MAX_BACKUPS => Len(dir_content) = MAX_BACKUPS)

\* C8: every DELETE is issued for the item with the oldest creation
\* timestamp among the items then remaining in the list.
C8_OldestFirst ==
  \A k \in 1..Len(deletes) : IsOldest(deletes[k].id, Remaining(k))

\* C9 as stated (over listings whose timestamps all parse): a DELETE
\* answered with a status other than 204 is the last DELETE, cleanup_files
\* returns normally, and N - k items are left, k being the number of that
\* attempt.
C9_FailureLeavesNMinusK ==
  \A k \in 1..Len(deletes) :
    (AllParse(listing) /\ deletes[k].result = "failed") =>
      /\ k = Len(deletes)
      /\ pc \in {"returned", "done"}
      /\ Len(dir_content) = Len(listing) - k

\* C9, amended: a DELETE answered with a status other than 204 is the last
\* DELETE and cleanup_files returns normally; when it is the k-th attempt, at
\* least N - (k - 1) items are left, and exactly N - (k - 1) when each of
\* the k - 1 attempts before it was for an item then in the list.
C9_FailureHalts ==
  \A k \in 1..Len(deletes) :
    deletes[k].result = "failed" =>
      /\ k = Len(deletes)
      /\ pc \in {"returned", "done"}
      /\ Len(dir_content) >= Len(listing) - (k - 1)
      /\ ((\A j \in 1..(k - 1) :
             \E i \in 1..Len(Remaining(j)) : Remaining(j)[i].id = deletes[j].id)
            => Len(dir_content) = Len(listing) - (k - 1))

\* over six items, the first DELETE succeeded and the second one failed
C9_Witness ==
  /\ pc = "returned"
  /\ Len(listing) = 6
  /\ Len(deletes) = 2
  /\ deletes[1].result = "ok"
  /\ deletes[2].result = "failed"
  /\ deletes[1].id # deletes[2].id
  /\ AllParse(listing)
  /\ Len(dir_content) = 5

\* C10: whatever the outcome of the stages, the run ends with remove_file
\* having run, and nothing runs after it.
C10_AlwaysRemoves ==
  /\ (pc \in {"done", "crashed"} => removed)
  /\ (removed => pc = "done")

\* C11: a remote call that times out is a failure of that call and is not
\* repeated: the stage reports its ordinary failure result (empty id,
\* transfer False, deletion False) and the run goes on as after a
\* non-success status, so the process does not end inside the call.
C11_TimeoutIsFailure ==
  /\ ~(/\ pc = "crashed"
       /\ "get_dir" \in called
       /\ "create_session" \notin called)
  /\ \A i \in 1..Len(puts) :
       puts[i].status = NoAnswer =>
         /\ i = Len(puts)
         /\ pc = "upload_returned"
         /\ ~upload_status
  /\ \A k \in 1..Len(deletes) :
       deletes[k].result = "raised" =>
         /\ k = Len(deletes)
         /\ pc \in {"returned", "done"}

\* C12: in connect_graph the full exchange is requested at most once, and
\* only right after a silent acquisition that returned nothing; a silent
\* acquisition that returned a result is the only request made.
C12_SilentShortCircuits ==
  /\ Len(msal_log) <= 2
  /\ \A i \in 1..Len(msal_log) :
       /\ (msal_log[i].call = "acquire_token_for_client" =>
             /\ i = 2
             /\ msal_log[1].call = "acquire_token_silent"
             /\ msal_log[1].result = "none")
       /\ ((msal_log[i].call = "acquire_token_silent"
              /\ msal_log[i].result # "none") => Len(msal_log) = 1)
  /\ ("acquire_token_for_client" \in called <=>
        \E i \in 1..Len(msal_log) : msal_log[i].call = "acquire_token_for_client")

\* the cached token was taken and the run went on to the directory lookup
C12_Witness ==
  /\ pc = "get_dir"
  /\ msal_log = << [call |-> "acquire_token_silent", result |-> "token"] >>
  /\ "acquire_token_for_client" \notin called

\* C13: a lookup answered with a status other than 200, and a lookup
\* answered 200 without an id, both give the empty id and stop manage_spo:
\* no session request, no PUT, no listing and no DELETE is issued.
C13_EmptyIdStops ==
  (lookup.status # NoAnswer /\ (lookup.status # 200 \/ ~lookup.hasId)) =>
    /\ dir_id = ""
    /\ pc \in {"returned", "done"}
    /\ called \cap {"create_session", "put", "list", "delete"} = {}

\* a lookup answered 200 without an id has ended the run
C13_Witness ==
  /\ pc = "done"
  /\ lookup = [status |-> 200, hasId |-> FALSE]
  /\ dir_id = ""

\* C14: the archive file is open exactly while _manage_file_chunks runs its
\* loop: it is closed once the function has returned True or False or was
\* left by an exception, and in every state after that.
C14_FileScoped == file_open <=> pc = "chunks"

\* the transfer returned False on its second chunk and the file is closed
C14_Witness ==
  /\ pc = "upload_returned"
  /\ ~upload_status
  /\ Len(puts) = 2
  /\ ~file_open

\* the listed items whose creation text parses
Parseable(dir) == {i \in 1..Len(dir) : Parses(dir[i].created)}

\* C15: an item whose creation timestamp does not parse is never the one a
\* DELETE is issued for, yet it counts toward the total: every DELETE is
\* issued while the list, unparseable items included, holds more than
\* MAX_BACKUPS items, and the loop is left without a failed deletion only
\* when the list holds at most MAX_BACKUPS items.
C15_UnparseableCounted ==
  /\ \A k \in 1..Len(deletes) :
       /\ \A i \in 1..Len(listing) :
            listing[i].id = deletes[k].id => Parses(listing[i].created)
       /\ Len(Remaining(k)) > MAX_BACKUPS
  /\ (/\ "list" \in called
      /\ pc \in {"returned", "done"}
      /\ \A k \in 1..Len(deletes) : deletes[k].result = "ok")
       => Len(dir_content) <= MAX_BACKUPS

\* of five items only one parses: it was deleted, the other four are left
C15_Witness ==
  /\ pc = "returned"
  /\ Len(listing) = MAX_BACKUPS + 1
  /\ Cardinality(Parseable(listing)) = 1
  /\ Len(deletes) = 1
  /\ deletes[1].result = "ok"
  /\ deletes[1].id \in Parseable(listing)
  /\ Len(dir_content) = MAX_BACKUPS

\* C16: in every pass, among the remaining items that share the minimum
\* creation timestamp the first in list order is the one selected: no item
\* before the selected one in the list has a timestamp as old as it.
C16_FirstMinimumWins ==
  \A k \in 1..Len(deletes) :
    LET rest == Remaining(k) IN
      \A i \in 1..Len(rest) :
        rest[i].id = deletes[k].id =>
          \A j \in 1..(i - 1) :
            ~(/\ Parses(rest[j].created)
              /\ Instant(rest[j].created) <= Instant(rest[i].created))

\* six items of one and the same timestamp: the first, then the second of
\* the list were selected
C16_Witness ==
  /\ Len(listing) = 6
  /\ \A i \in 1..Len(listing) :
       Parses(listing[i].created) /\ Instant(listing[i].created) = 1
  /\ Len(deletes) = 2
  /\ deletes[1].id = listing[1].id
  /\ deletes[2].id = listing[2].id

\* C17: the retention loop makes at most N - MAX_BACKUPS deletion attempts,
\* and every pass that stays in the loop has removed one item from the list.
C17_Terminates ==
  /\ Len(deletes) <= Excess(Len(listing))
  /\ (pc = "loop" => Len(dir_content) = Len(listing) - Len(deletes))

\* C18: every PUT carries a well-formed, non-empty range
\* 0 <= start <= end <= total - 1, and a Content-Length of end - start + 1.
C18_WellFormedRange ==
  \A i \in 1..Len(puts) :
    /\ 0 <= puts[i].first
    /\ puts[i].first <= puts[i].last
    /\ puts[i].last <= puts[i].total - 1
    /\ puts[i].length = puts[i].last - puts[i].first + 1

Min(a, b) == IF a < b THEN a ELSE b

\* C19: a DELETE is only issued for an item of the list as it then is, no
\* id is targeted twice, at most max(0, N - MAX_BACKUPS) DELETEs are issued
\* and at least min(N, MAX_BACKUPS) items stay in the list.
C19_NeverBelowLimit ==
  /\ \A k \in 1..Len(deletes) :
       \E i \in 1..Len(Remaining(k)) : Remaining(k)[i].id = deletes[k].id
  /\ \A k \in 1..Len(deletes) :
       \A j \in 1..(k - 1) : deletes[j].id # deletes[k].id
  /\ Len(deletes) <= Excess(Len(listing))
  /\ ("list" \in called /\ pc # "list" =>
        Len(dir_content) >= Min(Len(listing), MAX_BACKUPS))

RECURSIVE SumLengths(_)
SumLengths(reqs) ==
  IF reqs = << >> THEN 0
  ELSE reqs[1].length + SumLengths(Tail(reqs))

\* the offsets at the edges of the ranges sent and of the file
EdgeOffsets ==
  { o \in UNION { {puts[i].first, puts[i].last, puts[i].first - 1,
                   puts[i].last + 1} : i \in 1..Len(puts) }
            \cup {0, file_size - 1} :
      0 <= o /\ o < file_size }

=============================================================================
